---- MODULE Spec2Model ----
(***************************************************************************)
(* A model of the lock-free split-ordered hash map of                      *)
(* src/src/split_ordered_list.rs and of the segment tree that holds its    *)
(* bucket slots, src/src/growable_array.rs.  Every action is one atomic    *)
(* access to shared memory (a load, a store, a compare-and-set or a        *)
(* fetch-and-op) together with the thread-local computation that follows   *)
(* it.  The map is modelled over the slots the array returns, one for each *)
(* index; the array is modelled on its own.                                *)
(***************************************************************************)
EXTENDS Integers, Sequences, FiniteSets, TLC

VARIABLES
    heap,     \* the nodes allocated so far: id -> [val, next, mark]
    head,     \* List::head, the first node of the shared list
    buckets,  \* the bucket table: index -> the node id in the slot that
              \* GrowableArray::get returns for the index
    size,     \* number of buckets
    count,    \* number of items
    th,       \* per thread: position in its operation and its locals
    obs,      \* what the callers have observed: the results returned so far
    drv,      \* the calls the main thread makes before anything else
    root,     \* GrowableArray::root: <<segment, tag>>, the tag is the height
    segs,     \* the segments installed so far: id -> inner
    gth,      \* per thread: position in its call of GrowableArray::get
    gobs      \* what the callers of get have observed

\* The state of a GrowableArray that is used on its own
gavars == <<root, segs, gth, gobs>>

vars == <<heap, head, buckets, size, count, th, obs, drv, gavars>>

----------------------------------------------------------------------------
(* Bounds of the model *)

\* Width of usize in the model (64 in the build).
UsizeBits == 5
\* Operations the threads of the concurrent specification start in all.
MaxOps == 2
\* Operations the single thread of the sequential specification starts.
MaxSeqOps == 3
\* Keys the growth specification inserts.
MaxGrow == 13
\* Frames of initialize_bucket the model keeps apart: a frame of bucket 0
\* that calls itself beyond them is not kept, as it repeats the one below.
MaxDepth == 6
\* log2 of the number of words of a segment (10 in the build).
SEGMENT_LOGSIZE == 2
\* Calls of GrowableArray::get the threads of the array specification make
\* in all.
MaxGets == 2

Threads == {1, 2}
\* Keys the threads of the concurrent specification use: both fall into
\* bucket 1 while size is 2 and into bucket 3 while size is 4.
KeySet == {3, 7}
Ops == {"insert", "delete", "lookup"}
\* Keys and values of the sequential specification: valid keys of buckets 0
\* and 1, and the smallest and the largest key with the top bit set.
SeqKeys == {1, 3, 2 ^ (UsizeBits - 1) - 1, 2 ^ (UsizeBits - 1)}
\* The keys the main thread inserts first are a, a + s, a + 2s, ... (modulo
\* the number of valid keys), for a pattern <<a, s>> with s odd.
Patterns == {<<0, 1>>, <<3, 5>>, <<1, 7>>}
\* Indices passed to GrowableArray::get: 0, the largest index of one
\* segment (its bit length is SEGMENT_LOGSIZE), the one after it, and the
\* least index with the top bit set.
ArrIndices ==
    {0, 2 ^ SEGMENT_LOGSIZE - 1, 2 ^ SEGMENT_LOGSIZE, 2 ^ (UsizeBits - 1)}
\* The indices the main thread stores through before the threads call get
\* concurrently.
Plans == {<<>>, <<0>>, <<0, 2 ^ SEGMENT_LOGSIZE>>}

----------------------------------------------------------------------------
(* Program constants *)

LOAD_FACTOR == 2
InitialSize == 2

Modulus == 2 ^ UsizeBits
HI_MASK == 2 ^ (UsizeBits - 1)

----------------------------------------------------------------------------
(* Pure functions *)

RECURSIVE RevBits(_, _)
RevBits(x, n) ==
    IF n = 0 THEN 0
    ELSE (x % 2) * (2 ^ (n - 1)) + RevBits(x \div 2, n - 1)

\* usize::reverse_bits
reverse_bits(x) == RevBits(x, UsizeBits)

RECURSIVE LeadingZerosFrom(_, _)
LeadingZerosFrom(x, n) ==
    IF n = 0 THEN 0
    ELSE IF x >= 2 ^ (n - 1) THEN 0
    ELSE 1 + LeadingZerosFrom(x, n - 1)

\* usize::leading_zeros
leading_zeros(x) == LeadingZerosFrom(x, UsizeBits)

\* A variant of the assertion that is off by one bit
assert_valid_key_two(key) == leading_zeros(key) > 1

\* assert!(key.leading_zeros() != 0): TRUE when the assertion passes
assert_valid_key(key) == leading_zeros(key) # 0

\* A variant of ordinary_key that does not set the top bit
ordinary_key_plain(key) == reverse_bits(key)

\* (*key | HI_MASK).reverse_bits()
ordinary_key(key) ==
    reverse_bits(IF key >= HI_MASK THEN key ELSE key + HI_MASK)

\* child_index.reverse_bits()
sentinel_key(b) == reverse_bits(b)

RECURSIVE ParentLoop(_, _)
ParentLoop(parent, bucket_index) ==
    LET p == parent \div 2
    IN  IF p <= bucket_index THEN p ELSE ParentLoop(p, bucket_index)

\* A variant of get_parent that takes the parent of a binary heap
get_parent_shift(bucket_index, sz) == bucket_index \div 2

\* get_parent, with the size it loaded
get_parent(bucket_index, sz) == bucket_index - ParentLoop(sz, bucket_index)

\* AtomicUsize::fetch_add(1) and fetch_sub(1): the new value, wrapping
fetch_add(c) == (c + 1) % Modulus
fetch_sub(c) == (c + Modulus - 1) % Modulus

----------------------------------------------------------------------------
(* Memory *)

\* A node id is <<key, n>>: the n-th node allocated with that key.
NULL == <<-1, -1>>
KeyOf(id) == id[1]

NewId(key) == <<key, Cardinality({i \in DOMAIN heap : KeyOf(i) = key})>>

\* Option<V>: None is <<>>, Some(v) is <<v>>
None == <<>>
Some(v) == <<v>>

NewNode(value, next) == [val |-> value, next |-> next, mark |-> FALSE]

\* A variant of sentinel_node that gives the sentinel a value
sentinel_node_valued(next) == NewNode(Some(0), next)

\* Node::new(key, None), linked before the node `next`: a sentinel
sentinel_node(next) == NewNode(None, next)

\* A reference to an Atomic<Node>: the list head, a bucket slot, or the next
\* field of a node.
HeadRef == <<"head", 0, NULL>>
SlotRef(b) == <<"slot", b, NULL>>
NextRef(id) == <<"node", 0, id>>

BucketIds == 0 .. (Modulus - 1)
ValidKeys == 0 .. (HI_MASK - 1)

\* The live user entries of the shared list, as <<key, value>> pairs: the
\* unmarked nodes with a value that are linked from the node n on.
RECURSIVE LiveFrom(_, _)
LiveFrom(hp, n) ==
    IF n = NULL THEN {}
    ELSE (IF hp[n].val # None /\ ~hp[n].mark
          THEN {<<reverse_bits(KeyOf(n)) - HI_MASK, hp[n].val[1]>>}
          ELSE {}) \cup LiveFrom(hp, hp[n].next)

Live == LiveFrom(heap, head)

\* The nodes of the shared list: those linked from the node n on
RECURSIVE NodesFrom(_, _)
NodesFrom(hp, n) ==
    IF n = NULL THEN {} ELSE {n} \cup NodesFrom(hp, hp[n].next)

Linked == NodesFrom(heap, head)

\* Whether compare_and_set(expected with tag 0, _) succeeds on the reference
CasOk(ref, expected, hp) ==
    CASE ref[1] = "head" -> head = expected
      [] ref[1] = "slot" -> buckets[ref[2]] = expected
      [] OTHER -> hp[ref[3]].next = expected /\ ~hp[ref[3]].mark

\* The shared memory after `new` is written through the reference
HeadAfter(ref, new) == IF ref[1] = "head" THEN new ELSE head
BucketsAfter(ref, new) ==
    IF ref[1] = "slot" THEN [buckets EXCEPT ![ref[2]] = new] ELSE buckets
HeapAfter(ref, new, hp) ==
    IF ref[1] = "node" THEN [hp EXCEPT ![ref[3]].next = new] ELSE hp

----------------------------------------------------------------------------
(* GrowableArray: src/src/growable_array.rs *)

\* A pointer with its tag, <<segment id or value, tag>>; the null pointer
NullPtr == <<0, 0>>
is_null(p) == p[1] = 0
tag(p) == p[2]

\* Segment::new(): 1 << SEGMENT_LOGSIZE zeroed words
SegmentNew == [i \in 0 .. (2 ^ SEGMENT_LOGSIZE - 1) |-> NullPtr]

\* The segment that ensure_root_height builds: the old root in inner[0]
SegmentOver(old) == [SegmentNew EXCEPT ![0] = old]

\* The id of the next segment that is installed
NewSeg == Cardinality(DOMAIN segs) + 1

RECURSIVE BitAnd(_, _, _)
BitAnd(x, y, n) ==
    IF n = 0 THEN 0
    ELSE (x % 2) * (y % 2) + 2 * BitAnd(x \div 2, y \div 2, n - 1)

\* (1 << SEGMENT_LOGSIZE) - 1
SegMask == 2 ^ SEGMENT_LOGSIZE - 1

\* A variant of get_bits_at that leaves the mask where it is
get_bits_at_low(index, mask, at) == BitAnd(index, mask, UsizeBits)

\* get_bits_at: the SEGMENT_LOGSIZE bits of index at the segment `at`
get_bits_at(index, mask, at) ==
    BitAnd(index, (mask * 2 ^ (at * SEGMENT_LOGSIZE)) % Modulus, UsizeBits)
        \div 2 ^ (at * SEGMENT_LOGSIZE)

\* get_msb_index: the bit length of index
get_msb_index(index) == UsizeBits - leading_zeros(index)

\* A variant of required_height that rounds down
required_height_floor(msb) == msb \div SEGMENT_LOGSIZE

\* get, line 322-326: the height that ensure_root_height is called with
required_height(msb) ==
    IF msb % SEGMENT_LOGSIZE = 0 THEN msb \div SEGMENT_LOGSIZE
    ELSE msb \div SEGMENT_LOGSIZE + 1

\* A reference to an atomic word: the root, or the word i of a segment
RootRef == <<"root", 0, 0>>
WordRef(seg, i) == <<"seg", seg, i>>

\* The word behind a reference
Word(ref) == IF ref[1] = "root" THEN root ELSE segs[ref[2]][ref[3]]

\* compare_and_set(expected, a new segment with the tag) on the reference:
\* the segment of a thread that loses is dropped
install(ref, expected, inner, tg) ==
    IF Word(ref) # expected THEN UNCHANGED <<root, segs>>
    ELSE /\ root' = IF ref[1] = "root" THEN <<NewSeg, tg>> ELSE root
         /\ segs' = IF ref[1] = "root" THEN (NewSeg :> inner) @@ segs
                    ELSE (NewSeg :> inner) @@
                         [segs EXCEPT ![ref[2]][ref[3]] = <<NewSeg, tg>>]

\* A thread that is in no call of get.  index, op, val: the call.  height:
\* the argument of ensure_root_height.  seen: the root it loaded.  ref: the
\* reference of get_val_at_index.  top: the height at which the descent
\* began.  slot: the reference get returned.  res: the value the caller
\* loaded through it.  exp: the value last stored with that index when the
\* caller loaded.  lost: whether a compare_and_set of the call has failed.
GaIdle ==
    [pc |-> "idle", index |-> 0, op |-> "none", val |-> 0, height |-> 0,
     seen |-> NullPtr, ref |-> RootRef, top |-> 0, slot |-> RootRef,
     res |-> NullPtr, exp |-> NullPtr, lost |-> FALSE, n |-> 0]

\* GrowableArray::new, and no thread in a call
GaNew ==
    /\ root = NullPtr
    /\ segs = <<>>
    /\ gth = [t \in Threads |-> GaIdle]
    /\ gobs = [slot |-> [i \in ArrIndices |-> RootRef],
               val |-> [i \in ArrIndices |-> NullPtr]]

\* The step leaves thread t with the locals r
GaSet(t, r) ==
    /\ gth' = [gth EXCEPT ![t] =
                  [r EXCEPT !.lost = r.lost \/
                                     (gth[t].pc \in {"get_new", "erh_cas",
                                                     "gv_cas"}
                                      /\ UNCHANGED <<root, segs>>)]]
    /\ UNCHANGED <<heap, head, buckets, size, count, th, obs, drv>>

\* The calls of get made so far
Gets == gth[1].n + gth[2].n

\* What a thread does with the slot: the main thread stores, the other loads
RoleOf(t) == IF t = 1 THEN "store" ELSE "load"

\* The main thread has returned from its first calls
Planned ==
    \/ gth[1].n > Len(drv.pat)
    \/ gth[1].n = Len(drv.pat) /\ gth[1].pc = "idle"

\* get, line 308-310: get_msb_index, load root
get_call(t, index) ==
    /\ gth[t].pc = "idle"
    /\ GaSet(t, [GaIdle EXCEPT
                   !.pc = IF is_null(root) THEN "get_new" ELSE "erh_load",
                   !.index = index, !.op = RoleOf(t), !.val = Gets + 1,
                   !.height = required_height(get_msb_index(index)),
                   !.n = gth[t].n + 1])
    /\ UNCHANGED <<root, segs, gobs>>

\* The main thread calls get with the next index of its plan
get_planned ==
    /\ gth[1].n < Len(drv.pat)
    /\ get_call(1, drv.pat[gth[1].n + 1])

\* A thread calls get(index), to store a value through the slot or to load
\* the value in it
get(t) ==
    /\ Planned
    /\ Gets - Len(drv.pat) < MaxGets
    /\ \E index \in ArrIndices : get_call(t, index)

\* get, line 311-320: the first root, of height 1
get_new_root(t) ==
    /\ gth[t].pc = "get_new"
    /\ install(RootRef, NullPtr, SegmentNew, 1)
    /\ GaSet(t, [gth[t] EXCEPT !.pc = "erh_load"])
    /\ UNCHANGED gobs

\* ensure_root_height, line 250-252 and 264-266: load root, compare its tag
ensure_root_height(t) ==
    /\ gth[t].pc = "erh_load"
    /\ IF tag(root) < gth[t].height
       THEN GaSet(t, [gth[t] EXCEPT !.pc = "erh_cas", !.seen = root])
       ELSE GaSet(t, [gth[t] EXCEPT !.pc = "gv_load", !.ref = RootRef])
    /\ UNCHANGED <<root, segs, gobs>>

\* ensure_root_height, line 253-263: a new root over the root that was loaded
ensure_root_height_cas(t) ==
    /\ gth[t].pc = "erh_cas"
    /\ install(RootRef, gth[t].seen, SegmentOver(gth[t].seen),
               tag(gth[t].seen) + 1)
    /\ GaSet(t, [gth[t] EXCEPT !.pc = "erh_load"])
    /\ UNCHANGED gobs

\* get_val_at_index, line 276-290: load the segment behind the reference;
\* return its word when its height is 1, else go to the child's word
get_val_at_index(t) ==
    /\ gth[t].pc = "gv_load"
    /\ LET seg == Word(gth[t].ref)
           h == tag(seg)
           top == IF gth[t].ref = RootRef THEN h ELSE gth[t].top
       IN  IF h = 0
           THEN GaSet(t, [gth[t] EXCEPT !.pc = "panic", !.top = top])
                /\ UNCHANGED gobs
           ELSE LET ind == get_bits_at(gth[t].index, SegMask, h - 1)
                    ref == WordRef(seg[1], ind)
                IN  IF h = 1
                    THEN /\ GaSet(t, [gth[t] EXCEPT !.pc = "got", !.top = top,
                                                    !.slot = ref])
                         /\ gobs' = IF gobs.slot[gth[t].index] = RootRef
                                    THEN [gobs EXCEPT
                                            !.slot[gth[t].index] = ref]
                                    ELSE gobs
                    ELSE /\ GaSet(t, [gth[t] EXCEPT !.pc = "gv_child",
                                                    !.top = top, !.ref = ref,
                                                    !.seen = seg])
                         /\ UNCHANGED gobs
    /\ UNCHANGED <<root, segs>>

\* get_val_at_index, line 291-292: load the child
get_val_at_index_child(t) ==
    /\ gth[t].pc = "gv_child"
    /\ GaSet(t, [gth[t] EXCEPT
                   !.pc = IF is_null(Word(gth[t].ref)) THEN "gv_cas"
                          ELSE "gv_load"])
    /\ UNCHANGED <<root, segs, gobs>>

\* get_val_at_index, line 293-300: a new child, one lower than its parent
get_val_at_index_cas(t) ==
    /\ gth[t].pc = "gv_cas"
    /\ install(gth[t].ref, NullPtr, SegmentNew, tag(gth[t].seen) - 1)
    /\ GaSet(t, [gth[t] EXCEPT !.pc = "gv_load"])
    /\ UNCHANGED gobs

\* The caller stores its value through the slot that get returned, or loads
\* the value in it
slot_access(t) ==
    /\ gth[t].pc = "got"
    /\ LET s == gth[t].slot
           i == gth[t].index
       IN  IF gth[t].op = "store"
           THEN /\ segs' = [segs EXCEPT ![s[2]][s[3]] = <<gth[t].val, 0>>]
                /\ gobs' = [gobs EXCEPT !.val[i] = <<gth[t].val, 0>>]
                /\ GaSet(t, [gth[t] EXCEPT !.pc = "idle"])
           ELSE /\ UNCHANGED <<segs, gobs>>
                /\ GaSet(t, [gth[t] EXCEPT !.pc = "idle", !.res = Word(s),
                                           !.exp = gobs.val[i]])
    /\ UNCHANGED root

GaStep(t) ==
    \/ get(t)
    \/ get_new_root(t)
    \/ ensure_root_height(t)
    \/ ensure_root_height_cas(t)
    \/ get_val_at_index(t)
    \/ get_val_at_index_child(t)
    \/ get_val_at_index_cas(t)
    \/ slot_access(t)

----------------------------------------------------------------------------
(* Thread state *)

NoRes == <<"", None>>
ResOk(payload) == <<"Ok", payload>>
ResErr(payload) == <<"Err", payload>>
ResOpt(payload) == <<IF payload = None THEN "None" ELSE "Some", payload>>

\* The contents of the map a caller can compare before and after a call
Snap(hp, hd, c, s) == [live |-> LiveFrom(hp, hd), count |-> c, size |-> s]
NoSnap == [live |-> {}, count |-> 0, size |-> 0]

NoPrev == [op |-> "none", key |-> 0, val |-> 0, res |-> NoRes, pre |-> NoSnap]

\* What the callers know of a key: the value of the last insert that
\* returned Ok if no delete has returned Ok since, and the last call that
\* returned
NoSeen == [known |-> None, last |-> <<"none", "">>]

\* The locals of a thread that is in no operation
Locals ==
    [sz |-> 0, b |-> 0, stack |-> <<>>, cprev |-> HeadRef, ccurr |-> NULL,
     ctx |-> "find", found |-> FALSE, cnt |-> 0]

\* pc .. cnt: the call in progress and its locals.  res: what the last call
\* returned.  n: calls started.  wrote: whether a step of the call changed
\* the live entries, count or size.  pre: the contents when the call began.
\* prev: the call before.  used: the keys the thread has passed since the
\* main thread made its first inserts.  seen: what the callers knew of the
\* key when the call began.  exp: what a sequential map returns for the call.
IdleThread ==
    [pc |-> "idle", op |-> "none", key |-> 0, val |-> 0, res |-> NoRes,
     n |-> 0, wrote |-> FALSE, pre |-> NoSnap, prev |-> NoPrev, used |-> {},
     seen |-> NoSeen, exp |-> NoRes] @@ Locals

\* SplitOrderedList::new, and no thread in a call
New ==
    /\ heap = <<>>
    /\ head = NULL
    /\ buckets = [b \in BucketIds |-> NULL]
    /\ size = InitialSize
    /\ count = 0
    /\ GaNew
    /\ th = [t \in Threads |-> IdleThread]
    /\ obs = [model |-> [k \in ValidKeys |-> None],
              last |-> [k \in ValidKeys |-> NoSeen.last],
              okDel |-> [k \in ValidKeys |-> 0]]

Init ==
    /\ New
    /\ drv \in {[pat |-> <<3, 2>>, len |-> n] :
                  n \in {0, 1, MaxGrow \div 2 + 1}}

Top(t) == th[t].stack[Len(th[t].stack)]
Pop(s) == SubSeq(s, 1, Len(s) - 1)

\* The key the cursor of thread t is searching for
SearchKey(t) ==
    IF th[t].ctx = "ms" THEN sentinel_key(Top(t)[1]) ELSE ordinary_key(th[t].key)

\* Where a thread continues when initialize_bucket returns: in the caller's
\* make_sentinel (line 110) or, from the outermost call, in lookup_bucket.
AfterInit(stack) == IF Len(stack) > 1 THEN "ms_cursor" ELSE "lb_cursor"

\* Whether the step changes what a caller can see of the map
Effect ==
    \/ count' # count
    \/ size' # size
    \/ /\ <<heap', head'>> # <<heap, head>>
       /\ LiveFrom(heap', head') # LiveFrom(heap, head)

\* The step leaves thread t with the locals r
Set(t, r) ==
    /\ th' = [th EXCEPT ![t] = [r EXCEPT !.wrote = th[t].wrote \/ Effect]]
    /\ UNCHANGED <<obs, drv, gavars>>

\* What a sequential map holding m returns for the call
Expected(op, key, val, m) ==
    CASE op = "lookup" -> ResOpt(m[key])
      [] op = "insert" -> IF m[key] = None THEN ResOk(None) ELSE ResErr(Some(val))
      [] OTHER -> IF m[key] = None THEN ResErr(None) ELSE ResOk(m[key])

\* What the callers know of the map after the call has returned r: the
\* value of the last insert that returned Ok, until a delete returns Ok
ModelAfter(op, key, val, r, m) ==
    CASE op = "insert" /\ r[1] = "Ok" -> [m EXCEPT ![key] = Some(val)]
      [] op = "delete" /\ r[1] = "Ok" -> [m EXCEPT ![key] = None]
      [] OTHER -> m

\* The call of thread t returns r
Finish(t, r) ==
    /\ th' = [th EXCEPT ![t] =
                [pc |-> "idle", op |-> th[t].op, key |-> th[t].key,
                 val |-> th[t].val, res |-> r, n |-> th[t].n,
                 wrote |-> th[t].wrote \/ Effect, pre |-> th[t].pre,
                 prev |-> th[t].prev, used |-> th[t].used,
                 seen |-> th[t].seen, exp |-> th[t].exp] @@ Locals]
    /\ obs' = [model |-> ModelAfter(th[t].op, th[t].key, th[t].val, r,
                                    obs.model),
               last |-> [obs.last EXCEPT ![th[t].key] = <<th[t].op, r[1]>>],
               okDel |-> IF th[t].op = "delete" /\ r[1] = "Ok"
                         THEN [obs.okDel EXCEPT ![th[t].key] = @ + 1]
                         ELSE obs.okDel]
    /\ UNCHANGED <<drv, gavars>>

\* compare_and_set(expected, new) through the reference, on the heap hp
compare_and_set(ok, ref, new, hp) ==
    /\ heap' = IF ok THEN HeapAfter(ref, new, hp) ELSE heap
    /\ head' = IF ok THEN HeadAfter(ref, new) ELSE head
    /\ buckets' = IF ok THEN BucketsAfter(ref, new) ELSE buckets

----------------------------------------------------------------------------
(* find and lookup_bucket *)

\* find, line 139-140: load size, pick the bucket
find(t) ==
    /\ th[t].pc = "find"
    /\ UNCHANGED <<heap, head, buckets, size, count>>
    /\ Set(t, [th[t] EXCEPT !.pc = "lb_load", !.sz = size,
                            !.b = th[t].key % size])

\* lookup_bucket, line 116-122: load the slot, initialize the bucket if null
lookup_bucket_load(t) ==
    /\ th[t].pc = "lb_load"
    /\ UNCHANGED <<heap, head, buckets, size, count>>
    /\ IF buckets[th[t].b] = NULL
       THEN Set(t, [th[t] EXCEPT !.pc = "ib_load",
                                 !.stack = << <<th[t].b, -1>> >>])
       ELSE Set(t, [th[t] EXCEPT !.pc = "lb_cursor"])

\* lookup_bucket, line 123-126: the cursor at the slot and the node it holds
lookup_bucket_cursor(t) ==
    /\ th[t].pc = "lb_cursor"
    /\ UNCHANGED <<heap, head, buckets, size, count>>
    /\ Set(t, [th[t] EXCEPT !.pc = "hm", !.ctx = "find", !.stack = <<>>,
                            !.cprev = SlotRef(th[t].b),
                            !.ccurr = buckets[th[t].b]])

----------------------------------------------------------------------------
(* initialize_bucket and make_sentinel *)

\* initialize_bucket, line 85-89
initialize_bucket_load(t) ==
    /\ th[t].pc = "ib_load"
    /\ UNCHANGED <<heap, head, buckets, size, count>>
    /\ IF Top(t)[1] = 0 /\ buckets[0] = NULL
       THEN Set(t, [th[t] EXCEPT !.pc = "ib_boot"])
       ELSE Set(t, [th[t] EXCEPT !.pc = "ib_parent"])

\* initialize_bucket, line 90: list.harris_herlihy_shavit_insert(0, None)
harris_herlihy_shavit_insert(t) ==
    /\ th[t].pc = "ib_boot"
    /\ heap' = IF head = NULL THEN (NewId(0) :> sentinel_node(NULL)) @@ heap
               ELSE heap
    /\ head' = IF head = NULL THEN NewId(0) ELSE head
    /\ UNCHANGED <<buckets, size, count>>
    /\ Set(t, [th[t] EXCEPT !.pc = IF head = NULL THEN "ib_cas"
                                   ELSE "ib_parent"])

\* initialize_bucket, line 91-97: slot 0 from null to the head of the list
initialize_bucket_cas(t) ==
    /\ th[t].pc = "ib_cas"
    /\ buckets' = IF buckets[0] = NULL THEN [buckets EXCEPT ![0] = head]
                  ELSE buckets
    /\ UNCHANGED <<heap, head, size, count>>
    /\ Set(t, [th[t] EXCEPT !.pc = "ib_parent"])

\* initialize_bucket, line 101-108: get_parent, load the parent's slot and
\* recurse when it is null.  The recursion of bucket 0 on itself goes on for
\* as long as slot 0 is null (in the build, until the stack is exhausted).
initialize_bucket_parent(t) ==
    /\ th[t].pc = "ib_parent"
    /\ UNCHANGED <<heap, head, buckets, size, count>>
    /\ LET b == Top(t)[1]
           p == get_parent(b, size)
           st == [th[t].stack EXCEPT ![Len(th[t].stack)] = <<b, p>>]
       IN  IF buckets[p] # NULL
           THEN Set(t, [th[t] EXCEPT !.pc = "ms_cursor", !.stack = st])
           ELSE IF Len(st) < MaxDepth
           THEN Set(t, [th[t] EXCEPT !.pc = "ib_load",
                                     !.stack = Append(st, <<p, -1>>)])
           ELSE IF p = b
           THEN Set(t, [th[t] EXCEPT !.pc = "ib_load", !.stack = st])
           ELSE Set(t, [th[t] EXCEPT !.pc = "overflow", !.stack = st])

\* make_sentinel, line 63-64: the cursor at the parent's slot
make_sentinel_cursor(t) ==
    /\ th[t].pc = "ms_cursor"
    /\ UNCHANGED <<heap, head, buckets, size, count>>
    /\ Set(t, [th[t] EXCEPT !.pc = "hm", !.ctx = "ms",
                            !.cprev = SlotRef(Top(t)[2]),
                            !.ccurr = buckets[Top(t)[2]]])

\* make_sentinel, line 70-72: Cursor::insert of the sentinel
make_sentinel_insert(t) ==
    /\ th[t].pc = "ms_insert"
    /\ LET id == NewId(sentinel_key(Top(t)[1]))
           hp == (id :> sentinel_node(th[t].ccurr)) @@ heap
           ok == CasOk(th[t].cprev, th[t].ccurr, heap)
       IN  /\ compare_and_set(ok, th[t].cprev, id, hp)
           /\ UNCHANGED <<size, count>>
           /\ IF ok
              THEN Set(t, [th[t] EXCEPT !.pc = "ms_store", !.ccurr = id])
              ELSE Set(t, [th[t] EXCEPT !.pc = "ms_cursor"])

\* make_sentinel, line 73-76: store the new sentinel in the child's slot
make_sentinel_store(t) ==
    /\ th[t].pc = "ms_store"
    /\ buckets' = [buckets EXCEPT ![Top(t)[1]] = th[t].ccurr]
    /\ UNCHANGED <<heap, head, size, count>>
    /\ Set(t, [th[t] EXCEPT !.pc = AfterInit(th[t].stack),
                            !.stack = Pop(th[t].stack)])

----------------------------------------------------------------------------
(* Cursor::find_harris_michael *)

\* A variant of Found where make_sentinel inserts its node whether or not
\* the key was found
Found_blind(t, f) ==
    IF th[t].ctx = "find"
    THEN [th[t] EXCEPT !.pc = th[t].op, !.found = f]
    ELSE [th[t] EXCEPT !.pc = "ms_insert"]

\* The thread when find_harris_michael returns Ok(f): to the operation that
\* called find, or to make_sentinel (line 66-70)
Found(t, f) ==
    IF th[t].ctx = "find"
    THEN [th[t] EXCEPT !.pc = th[t].op, !.found = f]
    ELSE IF f
    THEN [th[t] EXCEPT !.pc = AfterInit(th[t].stack),
                       !.stack = Pop(th[t].stack)]
    ELSE [th[t] EXCEPT !.pc = "ms_insert"]

\* The thread when find_harris_michael returns Err: the loop of find (line
\* 138) or of make_sentinel (line 62) runs again
Retry(t) ==
    [th[t] EXCEPT !.pc = IF th[t].ctx = "find" THEN "find" ELSE "ms_cursor"]

\* One iteration of the loop of find_harris_michael: load curr.next; unlink
\* curr when it is marked, else compare its key with the search key.
find_harris_michael(t) ==
    /\ th[t].pc = "hm"
    /\ LET c == th[t].ccurr
           marked == c # NULL /\ heap[c].mark
           ok == marked /\ CasOk(th[t].cprev, c, heap)
       IN  /\ compare_and_set(ok, th[t].cprev,
                              IF ok THEN heap[c].next ELSE NULL, heap)
           /\ UNCHANGED <<size, count>>
           /\ IF c = NULL THEN Set(t, Found(t, FALSE))
              ELSE IF ok THEN Set(t, [th[t] EXCEPT !.ccurr = heap[c].next])
              ELSE IF marked THEN Set(t, Retry(t))
              ELSE IF KeyOf(c) < SearchKey(t)
              THEN Set(t, [th[t] EXCEPT !.cprev = NextRef(c),
                                        !.ccurr = heap[c].next])
              ELSE Set(t, Found(t, KeyOf(c) = SearchKey(t)))

----------------------------------------------------------------------------
(* lookup, insert, delete *)

\* lookup, line 158-169: the value of the node at the cursor when found
lookup_result(found, value) == IF found THEN ResOpt(value) ELSE ResOpt(None)

\* lookup, line 157-169, after find has returned
lookup(t) ==
    /\ th[t].pc = "lookup"
    /\ UNCHANGED <<heap, head, buckets, size, count>>
    /\ Finish(t, lookup_result(th[t].found,
                               IF th[t].found THEN heap[th[t].ccurr].val
                               ELSE None))

\* insert, line 179-188: return Err when find found the key, run the loop
\* again when Cursor::insert fails, go on to the increment when it succeeds
insert_outcome(found, cas) ==
    IF found THEN "return" ELSE IF cas THEN "ins_count" ELSE "find"

\* insert, line 179-188: Err(value) when found, else Cursor::insert
insert(t) ==
    /\ th[t].pc = "insert"
    /\ LET id == NewId(ordinary_key(th[t].key))
           hp == (id :> NewNode(Some(th[t].val), th[t].ccurr)) @@ heap
           to == insert_outcome(th[t].found,
                                CasOk(th[t].cprev, th[t].ccurr, heap))
       IN  /\ compare_and_set(to = "ins_count", th[t].cprev, id, hp)
           /\ UNCHANGED <<size, count>>
           /\ IF to = "return" THEN Finish(t, ResErr(Some(th[t].val)))
              ELSE IF to = "ins_count"
              THEN Set(t, [th[t] EXCEPT !.pc = to, !.ccurr = id])
              ELSE Set(t, [th[t] EXCEPT !.pc = to])

\* insert, line 191: count.fetch_add(1)
insert_count(t) ==
    /\ th[t].pc = "ins_count"
    /\ count' = fetch_add(count)
    /\ UNCHANGED <<heap, head, buckets, size>>
    /\ Set(t, [th[t] EXCEPT !.pc = "ins_size", !.cnt = count])

\* A variant of size_doubled that triples
size_tripled(sz) == (sz * 3) % Modulus

\* insert, line 194: size * 2
size_doubled(sz) == (sz * 2) % Modulus

\* insert, line 192-196: load size, then double it by compare_and_swap when
\* count / size > LOAD_FACTOR
insert_resize(t) ==
    /\ th[t].pc \in {"ins_size", "ins_double"}
    /\ size' = IF th[t].pc = "ins_double" /\ size = th[t].sz
               THEN size_doubled(th[t].sz) ELSE size
    /\ UNCHANGED <<heap, head, buckets, count>>
    /\ IF th[t].pc = "ins_size" /\ th[t].cnt \div size > LOAD_FACTOR
       THEN Set(t, [th[t] EXCEPT !.pc = "ins_double", !.sz = size])
       ELSE Finish(t, ResOk(None))

\* A variant of delete_outcome that takes a failed Cursor::delete for success
delete_outcome_twice(found, marked) ==
    IF ~found THEN "return" ELSE "del_unlink"

\* delete, line 203-209: return Err when find did not find the key, run the
\* loop again when Cursor::delete fails (the node is marked already), go on
\* to the decrement when it returns Ok
delete_outcome(found, marked) ==
    IF ~found THEN "return" ELSE IF marked THEN "find" ELSE "del_unlink"

\* delete, line 203-209: Cursor::delete marks the node (fetch_or on its next
\* pointer)
delete(t) ==
    /\ th[t].pc = "delete"
    /\ LET marked == th[t].found /\ heap[th[t].ccurr].mark
           to == delete_outcome(th[t].found, marked)
       IN  /\ heap' = IF th[t].found
                      THEN [heap EXCEPT ![th[t].ccurr].mark = TRUE]
                      ELSE heap
           /\ UNCHANGED <<head, buckets, size, count>>
           /\ IF to = "return" THEN Finish(t, ResErr(None))
              ELSE Set(t, [th[t] EXCEPT !.pc = to])

\* Cursor::delete, second half: try to unlink the marked node
delete_unlink(t) ==
    /\ th[t].pc = "del_unlink"
    /\ LET c == th[t].ccurr
       IN  compare_and_set(CasOk(th[t].cprev, c, heap), th[t].cprev,
                           heap[c].next, heap)
    /\ UNCHANGED <<size, count>>
    /\ Set(t, [th[t] EXCEPT !.pc = "del_count"])

\* delete, line 210-211: count.fetch_sub(1), value.as_ref().ok_or(())
delete_count(t) ==
    /\ th[t].pc = "del_count"
    /\ count' = fetch_sub(count)
    /\ UNCHANGED <<heap, head, buckets, size>>
    /\ LET v == heap[th[t].ccurr].val
       IN  Finish(t, IF v = None THEN ResErr(None) ELSE ResOk(v))

----------------------------------------------------------------------------
(* The callers *)

RECURSIVE Started(_)
Started(S) ==
    IF S = {} THEN 0
    ELSE LET t == CHOOSE x \in S : TRUE IN th[t].n + Started(S \ {t})

\* The value of the next insert of thread t: no two calls pass the same
FreshValue(t) == th[t].n * Cardinality(Threads) + t

\* The main thread has returned from its first inserts
Filled == th[1].n > drv.len \/ (th[1].n = drv.len /\ th[1].pc = "idle")

\* Thread t calls lookup, insert or delete: assert_valid_key, then find
Call(t, op, key) ==
    /\ th[t].pc = "idle"
    /\ UNCHANGED <<heap, head, buckets, size, count, obs, drv, gavars>>
    /\ th' = [th EXCEPT ![t] =
                [pc |-> IF assert_valid_key(key) THEN "find" ELSE "panic",
                 op |-> op, key |-> key,
                 val |-> IF op = "insert" THEN FreshValue(t) ELSE 0,
                 res |-> NoRes, n |-> th[t].n + 1, wrote |-> FALSE,
                 pre |-> Snap(heap, head, count, size),
                 prev |-> IF th[t].op = "none" THEN NoPrev
                          ELSE [op |-> th[t].op, key |-> th[t].key,
                                val |-> th[t].val, res |-> th[t].res,
                                pre |-> th[t].pre],
                 used |-> IF Filled THEN th[t].used \cup {key}
                          ELSE th[t].used,
                 seen |-> IF key \in ValidKeys
                          THEN [known |-> obs.model[key],
                                last |-> obs.last[key]]
                          ELSE NoSeen,
                 exp |-> IF key \in ValidKeys
                         THEN Expected(op, key,
                                       IF op = "insert" THEN FreshValue(t)
                                       ELSE 0, obs.model)
                         ELSE NoRes] @@ Locals]

\* The i-th key of the pattern
PatKey(i) == (drv.pat[1] + i * drv.pat[2]) % HI_MASK

\* The main thread inserts the next key of the pattern
Fill ==
    /\ th[1].n < drv.len
    /\ Call(1, "insert", PatKey(th[1].n))

\* A thread of the concurrent specification calls an operation
Start(t) ==
    /\ Filled
    /\ Started(Threads) - drv.len < MaxOps
    /\ \E op \in Ops, key \in KeySet : Call(t, op, key)

\* The thread of the sequential specification calls an operation
StartSeq ==
    /\ Filled
    /\ th[1].n - drv.len < MaxSeqOps
    /\ \E op \in Ops, key \in SeqKeys : Call(1, op, key)

\* The thread of the growth specification looks the inserted keys up, in
\* the order of their inserts
Probe ==
    /\ Filled
    /\ th[1].n - drv.len < drv.len
    /\ Call(1, "lookup", PatKey(th[1].n - drv.len))

FindSteps(t) ==
    \/ find(t)
    \/ lookup_bucket_load(t)
    \/ lookup_bucket_cursor(t)
    \/ initialize_bucket_load(t)
    \/ harris_herlihy_shavit_insert(t)
    \/ initialize_bucket_cas(t)
    \/ initialize_bucket_parent(t)
    \/ make_sentinel_cursor(t)
    \/ make_sentinel_insert(t)
    \/ make_sentinel_store(t)
    \/ find_harris_michael(t)

InsertSteps(t) == insert(t) \/ insert_count(t) \/ insert_resize(t)

DeleteSteps(t) == delete(t) \/ delete_unlink(t) \/ delete_count(t)

Step(t) == FindSteps(t) \/ lookup(t) \/ InsertSteps(t) \/ DeleteSteps(t)

Next == Fill \/ \E t \in Threads : Start(t) \/ Step(t)

\* Threads calling the operations concurrently, on an empty map or after
\* the main thread has inserted a key
Spec == Init /\ [][Next]_vars

InitSeq ==
    /\ New
    /\ drv \in {[pat |-> <<0, 1>>, len |-> n] :
                  n \in {0, MaxGrow \div 2 + 1, MaxGrow}}

NextSeq == Fill \/ StartSeq \/ Step(1)

\* One thread calling the operations one after the other, on an empty map
\* or after it has inserted enough keys to double size once or twice
SpecSeq == InitSeq /\ [][NextSeq]_vars

InitGrow ==
    /\ New
    /\ drv \in {[pat |-> p, len |-> n] : p \in Patterns, n \in 0 .. MaxGrow}

NextGrow == Fill \/ Probe \/ FindSteps(1) \/ lookup(1) \/ InsertSteps(1)

\* One thread inserting distinct keys, then looking each of them up
SpecGrow == InitGrow /\ [][NextGrow]_vars

\* The concurrent specification where thread 2 keeps taking steps while it
\* is in a call, and thread 1 may stop anywhere
SpecFair == Init /\ [][Next]_vars /\ WF_vars(Step(2))

InitDeep ==
    /\ New
    /\ drv \in {[pat |-> <<0, 2>>, len |-> n] :
                  n \in {MaxGrow \div 2, MaxGrow \div 2 + 1}}

\* Threads calling the operations concurrently after the main thread has
\* inserted even keys, one fewer than it takes to double size, or as many:
\* in the first case two more inserts both try to double size, in the second
\* the keys of the threads fall into bucket 3, and neither that bucket nor
\* its parent, bucket 1, has been initialized
SpecDeep == InitDeep /\ [][Next]_vars

\* For the array, drv.pat is the sequence of indices the main thread passes
\* first
InitArr ==
    /\ New
    /\ drv \in {[pat |-> p, len |-> Len(p)] : p \in Plans}

NextArr == get_planned \/ \E t \in Threads : GaStep(t)

\* Threads calling GrowableArray::get on one array concurrently, and using
\* the slots it returns
SpecArr == InitArr /\ [][NextArr]_vars

----------------------------------------------------------------------------
(* Properties *)

Idle(t) == th[t].pc = "idle" /\ th[t].op # "none"

\* No other thread has passed the key of thread t
NoOther(t) == \A u \in Threads \ {t} : th[t].key \notin th[u].used

\* No other thread has called
Alone(t) == \A u \in Threads \ {t} : th[u].used = {}

\* The entries of a set of <<key, value>> pairs that have the key
EntriesOf(live, key) == {e \in live : e[1] = key}

\* C1 (Spec): a lookup returns the value of the last insert of the key that
\* returned Ok, and absent when the key was never inserted or a delete of
\* it has returned Ok since, whatever calls are made with other keys.
C1_LookupReturnsLastInsert ==
    \A t \in Threads :
        Idle(t) /\ th[t].op = "lookup" /\ NoOther(t)
            => th[t].res = ResOpt(th[t].seen.known)

\* C2 (Spec): when the threads use disjoint keys, every call returns what a
\* sequential map returns for it, and when all calls have returned the list
\* holds the entries of that map.
C2_DisjointKeysAsSequential ==
    (\A t, u \in Threads : t # u => th[t].used \cap th[u].used = {})
        => /\ \A t \in Threads : Idle(t) => th[t].res = th[t].exp
           /\ (\A t \in Threads : th[t].pc = "idle")
                => Live = {<<k, obs.model[k][1]>> :
                             k \in {j \in ValidKeys : obs.model[j] # None}}

\* C3 (Spec): an insert of a key that is present returns Err with the value
\* passed and none of its steps changes entries, count or size; a lookup
\* after it returns the value the key had.
C3_DuplicateInsertRejected ==
    \A t \in Threads :
        /\ Idle(t) /\ th[t].op = "insert" /\ NoOther(t)
             /\ EntriesOf(th[t].pre.live, th[t].key) # {}
             => /\ th[t].res = ResErr(Some(th[t].val))
                /\ ~th[t].wrote
        /\ Idle(t) /\ th[t].op = "lookup" /\ NoOther(t)
             /\ th[t].seen.last = <<"insert", "Err">>
             => /\ th[t].seen.known # None
                /\ th[t].res = ResOpt(th[t].seen.known)

\* The nodes allocated for the user key k: one for each insert that has
\* linked its node
Inserted(k) ==
    LET okey == ordinary_key(k) IN {i \in DOMAIN heap : KeyOf(i) = okey}

\* C4 (Spec): of the deletes of a key, at most one returns Ok for each
\* insert of the key that has linked its node, and a delete that returns Err
\* has changed neither the entries nor count nor size.
C4_DeleteAtMostOnce ==
    /\ \A k \in KeySet : obs.okDel[k] <= Cardinality(Inserted(k))
    /\ \A t \in Threads :
           Idle(t) /\ th[t].op = "delete" /\ th[t].res[1] = "Err"
               => th[t].res = ResErr(None) /\ ~th[t].wrote

\* Both threads have deleted the one key the main thread inserted: one has
\* returned Ok, the other Err.
C4_Witness ==
    /\ drv.len = 1 /\ th[1].n = 2 /\ th[2].n = 1
    /\ Idle(1) /\ Idle(2)
    /\ th[1].op = "delete" /\ th[2].op = "delete"
    /\ th[1].key = PatKey(0) /\ th[2].key = PatKey(0)
    /\ {th[1].res[1], th[2].res[1]} = {"Ok", "Err"}

\* C5 (Spec): the delete that follows a successful insert of its key, with
\* no call on the key in between, returns Ok with the inserted value; when
\* no other thread has called, entries and count are then what they were
\* before the insert; the lookup that follows a successful delete returns
\* absent.
C5_InsertDeleteRoundTrip ==
    \A t \in Threads :
        /\ Idle(t) /\ th[t].op = "delete" /\ NoOther(t)
             /\ th[t].seen.last = <<"insert", "Ok">>
             => th[t].res = ResOk(th[t].seen.known)
        /\ Idle(t) /\ th[t].op = "delete" /\ Alone(t)
             /\ th[t].prev.op = "insert" /\ th[t].prev.key = th[t].key
             /\ th[t].prev.res[1] = "Ok"
             => /\ Live = th[t].prev.pre.live
                /\ count = th[t].prev.pre.count
        /\ Idle(t) /\ th[t].op = "lookup" /\ NoOther(t)
             /\ th[t].seen.last = <<"delete", "Ok">>
             => th[t].res = ResOpt(None)

\* The keys the main thread inserts first
FillKeys == {PatKey(i) : i \in 0 .. (drv.len - 1)}

\* C6 (SpecGrow): every insert of a new key returns Ok; after the inserts
\* count is their number and the list holds one entry for each key; every
\* key is then found by lookup with the value inserted for it.
C6_AllKeysFoundAfterGrowth ==
    /\ \A t \in Threads :
           /\ Idle(t) /\ th[t].op = "insert" => th[t].res = ResOk(None)
           /\ Idle(t) /\ th[t].op = "lookup"
                => /\ th[t].res[1] = "Some"
                   /\ th[t].res = ResOpt(obs.model[th[t].key])
    /\ Filled => /\ count = drv.len
                 /\ Cardinality(Live) = drv.len
                 /\ {e[1] : e \in Live} = FillKeys

\* The largest number of keys has been inserted, size has doubled twice and
\* the last of the keys has been looked up.
C6_Witness ==
    /\ drv.len = MaxGrow /\ drv.pat = <<3, 5>>
    /\ th[1].n = 2 * MaxGrow /\ Idle(1)
    /\ size = 4 * InitialSize

\* C7 (Spec): when two threads insert the same absent key, one insert
\* returns Ok and the other Err with the value it passed, and the list
\* never holds two live entries for one key.
C7_OneInsertWins ==
    /\ \A t, u \in Threads :
           /\ t # u /\ drv.len = 0 /\ th[t].n = 1 /\ th[u].n = 1
           /\ Idle(t) /\ Idle(u)
           /\ th[t].op = "insert" /\ th[u].op = "insert"
           /\ th[t].key = th[u].key /\ th[t].res[1] = "Ok"
           => th[u].res = ResErr(Some(th[u].val))
    /\ \A k \in KeySet : Cardinality(EntriesOf(Live, k)) <= 1

\* C8 (SpecFair): a call of a thread that keeps taking steps returns,
\* whether the other thread goes on or stops.
C8_CallReturns ==
    (th[2].pc \notin {"idle", "panic"}) ~> (th[2].pc = "idle")

\* C9 (Spec): no step of a lookup changes the live entries, count or size,
\* and when no other thread has called they are the same when the lookup
\* returns as when it was called.
C9_LookupChangesNothing ==
    \A t \in Threads :
        th[t].op = "lookup"
            => /\ ~th[t].wrote
               /\ Idle(t) /\ Alone(t)
                    => Snap(heap, head, count, size) = th[t].pre

\* A lookup has initialized the bucket its key has moved to when size was
\* doubled, on a map that holds entries, and has returned the key's value.
C9_Witness ==
    /\ drv.len > 1 /\ th[1].n = drv.len + 1
    /\ Idle(1) /\ th[1].op = "lookup" /\ th[1].res[1] = "Some"
    /\ Alone(1)
    /\ size = 2 * InitialSize
    /\ th[1].key % size # th[1].key % InitialSize
    /\ buckets[th[1].key % size] # NULL

\* C10 (SpecSeq): a call panics exactly when its key has the top bit set,
\* and the step that panics leaves list, bucket table, size and count alone.
C10_InvalidKeyRejected ==
    /\ [](\A t \in Threads :
             th[t].op # "none"
                 => /\ th[t].pc = "panic" <=> th[t].key >= HI_MASK
                    /\ th[t].pc = "panic" => ~th[t].wrote)
    /\ [][\A t \in Threads :
             th'[t].pc = "panic"
                 => UNCHANGED <<heap, head, buckets, size, count>>]_vars

\* A call with the least key that has the top bit set has panicked, after a
\* call with the largest valid key has returned, on a map that holds
\* entries.
C10_Witness ==
    /\ th[1].pc = "panic" /\ th[1].key = HI_MASK
    /\ th[1].prev.key = HI_MASK - 1 /\ th[1].prev.res # NoRes
    /\ Live # {}

\* C11 (SpecArr): every call of get with an index returns the slot that
\* the first call with that index returned, calls with different indices
\* return different slots, and a load through the slot of an index returns
\* the value last stored through a slot of that index.
C11_SameIndexSameSlot ==
    /\ \A t \in Threads :
           /\ gth[t].pc = "got" \/ (gth[t].pc = "idle" /\ gth[t].op # "none")
                => gth[t].slot = gobs.slot[gth[t].index]
           /\ gth[t].pc = "idle" /\ gth[t].op = "load"
                => gth[t].res = gth[t].exp
    /\ \A i, j \in ArrIndices :
           i # j /\ gobs.slot[i] # RootRef => gobs.slot[i] # gobs.slot[j]

\* Both threads have called get with the first index beyond one segment on
\* an array that had no root; the thread that loads has lost a
\* compare_and_set to the other and has loaded the value the other stored.
C11_Witness ==
    /\ drv.pat = <<>>
    /\ gth[1].pc = "idle" /\ gth[1].op = "store"
    /\ gth[1].index = 2 ^ SEGMENT_LOGSIZE
    /\ gth[2].pc = "idle" /\ gth[2].op = "load"
    /\ gth[2].index = 2 ^ SEGMENT_LOGSIZE
    /\ gth[2].lost /\ gth[2].top > 1
    /\ gth[2].res = <<gth[1].val, 0>>

\* C20 (SpecArr): the height of the root never decreases, and whenever get
\* has returned a slot for an index, the height at which its descent began
\* and the height of the root are at least 1 and, multiplied by
\* SEGMENT_LOGSIZE, at least the bit length of the index.
C20_RootHeightCovers ==
    /\ [](\A t \in Threads :
             gth[t].pc = "got"
                 => /\ gth[t].top >= 1
                    /\ gth[t].top * SEGMENT_LOGSIZE
                         >= get_msb_index(gth[t].index)
                    /\ tag(root) >= gth[t].top)
    /\ [][tag(root') >= tag(root)]_vars

\* get has returned a slot for the least index with the top bit set, after
\* growing the root to the height of that index, and a slot for the largest
\* index of one segment, whose descent began when the root had height 1.
C20_Witness ==
    /\ gth[1].pc = "got" /\ gth[1].index = 2 ^ (UsizeBits - 1)
    /\ gth[1].top = required_height(UsizeBits) /\ gth[1].top > 1
    /\ gth[2].pc = "got" /\ gth[2].index = 2 ^ SEGMENT_LOGSIZE - 1
    /\ gth[2].top = 1

\* C12 (SpecGrow): when an insert by the only thread has returned Ok, size
\* is twice what it was if the count after the insert exceeds LOAD_FACTOR
\* times the size, and is what it was otherwise.
C12_DoublesAboveLoadFactor ==
    Idle(1) /\ th[1].op = "insert" /\ th[1].res[1] = "Ok"
        => IF th[1].pre.count + 1 > LOAD_FACTOR * th[1].pre.size
           THEN size = 2 * th[1].pre.size
           ELSE size = th[1].pre.size

\* Slot b holds the sentinel of bucket b, and the sentinel is in the list
Resolved(b) ==
    /\ buckets[b] # NULL
    /\ KeyOf(buckets[b]) = sentinel_key(b)
    /\ heap[buckets[b]].val = None
    /\ buckets[b] \in Linked

\* C13 (Spec): whenever a thread is about to build the cursor of
\* lookup_bucket(b), slot b holds the sentinel of bucket b, a node of the
\* shared list.
C13_BucketResolved ==
    \A t \in Threads : th[t].pc = "lb_cursor" => Resolved(th[t].b)

\* C14 (Spec): no step changes a bucket slot that holds a node: a slot is
\* written at most once, and is never cleared or given another node.
C14_SlotWrittenOnce ==
    [][\A b \in BucketIds : buckets[b] # NULL => buckets'[b] = buckets[b]]_vars

\* C15 (Spec): the shared list, the nodes linked from its head, never holds
\* two sentinels with the same key, however the threads that initialize a
\* bucket and its ancestors interleave.
C15_OneSentinelPerBucket ==
    LET sentinels == {n \in Linked : heap[n].val = None}
    IN  Cardinality({KeyOf(n) : n \in sentinels}) = Cardinality(sentinels)

\* Both threads have run initialize_bucket(1) on a new map, and with it the
\* initializer of bucket 0, which went on to make_sentinel(0, 0): one has
\* inserted the sentinel of bucket 1 and not yet stored it, the other has
\* found that sentinel and returned.
C15_Witness ==
    \E t, u \in Threads :
        /\ drv.len = 0
        /\ th[t].pc = "ms_store" /\ Top(t) = <<1, 0>>
        /\ th[u].pc = "lb_cursor" /\ th[u].b = 1 /\ buckets[1] = NULL
        /\ buckets[0] = head
        /\ Cardinality({n \in Linked : heap[n].val = None}) = 2

\* C16 (SpecDeep): whenever a thread builds the cursor of
\* make_sentinel(parent, b) for a bucket b > 0, the slot of the parent holds
\* the parent's sentinel, a node of the shared list; and every sentinel that
\* has been spliced is a node of the shared list.
C16_ParentBeforeChild ==
    /\ \A t \in Threads :
           th[t].pc = "ms_cursor" /\ Top(t)[1] > 0 => Resolved(Top(t)[2])
    /\ \A n \in DOMAIN heap : heap[n].val = None => n \in Linked

\* The values size can take: the powers of two from 2 on
Sizes == {2 ^ i : i \in 1 .. (UsizeBits - 1)}

\* The nodes linked from the node n on have strictly increasing keys
RECURSIVE SortedFrom(_, _)
SortedFrom(hp, n) ==
    \/ n = NULL
    \/ hp[n].next = NULL
    \/ KeyOf(n) < KeyOf(hp[n].next) /\ SortedFrom(hp, hp[n].next)

\* C17 (Spec): the list linked from the head is strictly sorted by key; no
\* node with a value has the key of a node without one; and for every valid
\* key k that a thread passes, the ordinary key of k is the sentinel key of
\* no bucket id and, for every power-of-two size, greater than the sentinel
\* key of bucket k % size, as it is for the bucket the thread then picks.
C17_SplitOrder ==
    /\ SortedFrom(heap, head)
    /\ {KeyOf(n) : n \in {m \in DOMAIN heap : heap[m].val = None}}
         \cap {KeyOf(n) : n \in {m \in DOMAIN heap : heap[m].val # None}}
         = {}
    /\ \A t \in Threads :
           /\ th[t].pc = "find"
                => LET ok == ordinary_key(th[t].key)
                   IN  /\ \A b \in ValidKeys : ok # sentinel_key(b)
                       /\ \A sz \in Sizes :
                              sentinel_key(th[t].key % sz) < ok
           /\ th[t].pc = "lb_load"
                => sentinel_key(th[t].b) < ordinary_key(th[t].key)

\* After size has doubled and bucket 3 has been initialized, between the
\* entries of bucket 1, a thread has inserted a key of bucket 3 again.
C17_Witness ==
    /\ drv.len > 1 /\ size = 2 * InitialSize
    /\ buckets[3] # NULL /\ buckets[3] \in Linked
    /\ \E t \in Threads :
           /\ Idle(t) /\ th[t].op = "insert" /\ th[t].res[1] = "Ok"
           /\ th[t].key % size = 3 /\ th[t].n > drv.len
           /\ \E n \in Linked :
                  KeyOf(n) = ordinary_key(th[t].key) /\ ~heap[n].mark

\* C18 (SpecDeep): size is 2 at first and always a power of two from 2 on;
\* the only step that changes size is the compare_and_swap of an insert,
\* which doubles the size the insert loaded and is the last step of the
\* call; and an insert whose compare_and_swap fails returns as well.
C18_SizeDoublesOnly ==
    /\ size = InitialSize
    /\ [](size \in Sizes)
    /\ [][/\ size' # size
             => \E t \in Threads :
                    /\ th[t].pc = "ins_double" /\ th'[t].pc = "idle"
                    /\ th[t].sz = size /\ size' = 2 * size
          /\ \A t \in Threads :
                 th[t].pc = "ins_double" /\ th'[t] # th[t]
                     => th'[t].pc = "idle"]_vars

\* Two inserts have both loaded size 2 and found the load factor exceeded;
\* one has doubled size and returned, the compare_and_swap of the other is
\* about to fail.
C18_Witness ==
    \E t, u \in Threads :
        /\ t # u
        /\ th[t].pc = "ins_double" /\ th[t].sz = InitialSize
        /\ size = 2 * InitialSize
        /\ Idle(u) /\ th[u].op = "insert" /\ th[u].res[1] = "Ok"
        /\ th[u].n > (IF u = 1 THEN drv.len ELSE 0)

\* C19 (Spec): whenever no thread is in a call, count is the number of live
\* user entries of the shared list; and a lookup, an insert that returns Err
\* and a delete that returns Err have not changed count.
C19_CountIsLiveEntries ==
    /\ (\A t \in Threads : th[t].pc = "idle") => count = Cardinality(Live)
    /\ \A t \in Threads :
           Idle(t) /\ (th[t].op = "lookup" \/ th[t].res[1] = "Err")
               /\ Alone(t)
               => count = th[t].pre.count

\* C21 (Spec): count is never more than the number of user nodes that have
\* been spliced, so it has not wrapped below zero; and no insert sets out to
\* double size on a count above that number.
C21_CountNeverWraps ==
    LET spliced == Cardinality({n \in DOMAIN heap : heap[n].val # None})
    IN  /\ count <= spliced
        /\ \A t \in Threads : th[t].pc = "ins_double" => th[t].cnt <= spliced

====
